---- MODULE Spec2Model ----
(***************************************************************************)
(* Shapefile ingestion of the land-plot marketplace: geometry validation,  *)
(* conversion of decoded features to plot rows, and the upload pipeline    *)
(* (upload component -> ShapefileService.uploadShapefile -> store).        *)
(*                                                                         *)
(* Three specifications share the variables:                               *)
(*   SpecValidate  the two Turf.js validators applied to one geometry      *)
(*   SpecConvert   ShapefileService.convertToPlotData applied to a         *)
(*                 sequence of decoded features                            *)
(*   Spec          the upload component's onDrop and uploadShapefile,      *)
(*                 step by step at each await, against the store           *)
(***************************************************************************)
EXTENDS Integers, Sequences, FiniteSets, TLC

(***************************************************************************)
(* Bounds of the model.                                                    *)
(***************************************************************************)
\* largest number of self-intersection points turf.kinks reports
MaxKinks == 1
\* longest feature sequence handed to convertToPlotData in SpecConvert
MaxFeatures == 3

(***************************************************************************)
(* Program constants.                                                      *)
(***************************************************************************)
\* validateGeometry: if (area < 1)
AreaMin == 1
\* validateGeometry: if (area > 10000000)
AreaMax == 10000000
\* area in m2 of the 0.001 x 0.001 degree square generateMockFeaturesFromFile
\* draws around (-74.006, 40.7128)
MockArea == 9392

(***************************************************************************)
(* JavaScript values, as far as the code looks at them.                    *)
(***************************************************************************)
Undefined == [k |-> "undefined"]
Str(s) == [k |-> "string", s |-> s]
Num(n) == [k |-> "number", n |-> n]

\* the operand test of JavaScript's || : undefined, "" and 0 are falsy
Truthy(v) == v # Undefined /\ v # Str("") /\ v # Num(0)

\* a || b
Or(a, b) == IF Truthy(a) THEN a ELSE b

\* properties.KEY : undefined when the key is absent
Get(props, key) == IF key \in DOMAIN props THEN props[key] ELSE Undefined

(***************************************************************************)
(* Geometries.  The geometry-math library (Turf.js) is outside the         *)
(* repository; a geometry is described by what the library answers for it: *)
(*   type     the GeoJSON type                                             *)
(*   ringsOk  turf.polygon(coordinates) accepts the rings (each ring has   *)
(*            four or more positions and is closed); it throws otherwise   *)
(*   valid    the answer of turf.booleanValid                              *)
(*   kinks    the number of features turf.kinks returns                    *)
(*   area     the answer of turf.area, in whole m2.  The code only         *)
(*            compares the area with 1 and 10000000, so an area in (0,1)   *)
(*            behaves as 0 and one in (10000000, 10000001) as 10000001.    *)
(***************************************************************************)
NullGeometry == [type |-> "null"]

GeomTypes == {"Polygon", "MultiPolygon", "Point"}

Areas == {0, AreaMin, AreaMin + 1, MockArea, AreaMax - 1, AreaMax, AreaMax + 1}

\* what cannot be: a ring that is not closed is not a valid polygon, and a
\* point has no rings, no kinks and no area
PossibleGeometry(g) ==
    /\ g.valid => g.ringsOk
    /\ g.type = "Point" => (g.area = 0 /\ g.kinks = 0 /\ g.valid)
    /\ g.type # "Polygon" => g.ringsOk

Geometries ==
    {NullGeometry} \cup
    {g \in [type : GeomTypes, ringsOk : BOOLEAN, valid : BOOLEAN,
            kinks : 0..MaxKinks, area : Areas] : PossibleGeometry(g)}

(***************************************************************************)
(* ShapefileService.validateGeometry                                       *)
(***************************************************************************)
ErrNotPolygon == "Geometry must be a Polygon"
ErrInvalidPolygon == "Invalid polygon geometry"
ErrSelfIntersection == "Polygon has self-intersections"
ErrAreaTooSmall == "Area too small"
ErrAreaTooLarge == "Area too large"
ErrInvalidFormat == "Invalid geometry format"

\* errors.push(e) when cond
PushIf(errors, cond, e) == IF cond THEN Append(errors, e) ELSE errors

\* PolygonChecks with the upper threshold of the database's
\* validate_plot_geometry (1000000) in place of 10000000
PolygonChecksMillion(g, errInvalid, errKinks, errSmall, errLarge) ==
    LET e1 == PushIf(<< >>, ~g.valid, errInvalid)
        e2 == PushIf(e1, g.kinks > 0, errKinks)
        e3 == PushIf(e2, g.area < AreaMin, errSmall)
        e4 == PushIf(e3, g.area > 1000000, errLarge)
    IN  [isValid |-> Len(e4) = 0, errors |-> e4]

\* PolygonChecks with <= and >= in place of < and >
PolygonChecksExclusive(g, errInvalid, errKinks, errSmall, errLarge) ==
    LET e1 == PushIf(<< >>, ~g.valid, errInvalid)
        e2 == PushIf(e1, g.kinks > 0, errKinks)
        e3 == PushIf(e2, g.area <= AreaMin, errSmall)
        e4 == PushIf(e3, g.area >= AreaMax, errLarge)
    IN  [isValid |-> Len(e4) = 0, errors |-> e4]

\* the checks that follow turf.polygon(), in the order of the code
PolygonChecks(g, errInvalid, errKinks, errSmall, errLarge) ==
    LET e1 == PushIf(<< >>, ~g.valid, errInvalid)
        e2 == PushIf(e1, g.kinks > 0, errKinks)
        e3 == PushIf(e2, g.area < AreaMin, errSmall)
        e4 == PushIf(e3, g.area > AreaMax, errLarge)
    IN  [isValid |-> Len(e4) = 0, errors |-> e4]

validateGeometry(g) ==
    IF g = NullGeometry \/ g.type # "Polygon"
    THEN [isValid |-> FALSE, errors |-> <<ErrNotPolygon>>]
    ELSE IF ~g.ringsOk
    THEN [isValid |-> FALSE, errors |-> <<ErrInvalidFormat>>]
    ELSE PolygonChecks(g, ErrInvalidPolygon, ErrSelfIntersection,
                       ErrAreaTooSmall, ErrAreaTooLarge)

(***************************************************************************)
(* PlotService.validatePlotGeometry: the same checks with other texts      *)
(***************************************************************************)
ErrPlotNotPolygon == "Geometry must be a valid Polygon"
ErrPlotAreaTooSmall == "Plot area is too small (< 1 sq meter)"
ErrPlotAreaTooLarge == "Plot area is too large (> 10 sq km)"

validatePlotGeometry(g) ==
    IF g = NullGeometry \/ g.type # "Polygon"
    THEN [isValid |-> FALSE, errors |-> <<ErrPlotNotPolygon>>]
    ELSE IF ~g.ringsOk
    THEN [isValid |-> FALSE, errors |-> <<ErrInvalidFormat>>]
    ELSE PolygonChecks(g, ErrInvalidPolygon, ErrSelfIntersection,
                       ErrPlotAreaTooSmall, ErrPlotAreaTooLarge)

(***************************************************************************)
(* The database's validate_plot_geometry.  PostGIS is outside the          *)
(* repository as well; next to what Turf.js answers, a geometry handed to  *)
(* the function has                                                        *)
(*   area3857  the answer of ST_Area(ST_Transform(geom, 3857)), in whole   *)
(*             m2: the area on the Web Mercator plane, which is never      *)
(*             below the area on the ellipsoid that turf.area answers      *)
(***************************************************************************)
\* validate_plot_geometry: ... > 1000000
SqlAreaMax == 1000000

\* ST_IsValid: a polygon that crosses itself is not valid
ST_IsValid(g) == g.valid /\ g.kinks = 0

\* the answer: NULL for NULL (the function is STRICT), "error" when the
\* coordinates are no value of the type geometry, else true or false
validate_plot_geometry(g) ==
    IF g = NullGeometry THEN [result |-> "null"]
    ELSE IF ~g.ringsOk THEN [result |-> "error"]
    ELSE IF ~ST_IsValid(g) THEN [result |-> "false"]
    ELSE IF g.type # "Polygon" THEN [result |-> "false"]
    ELSE IF g.area3857 < 1 \/ g.area3857 > SqlAreaMax THEN [result |-> "false"]
    ELSE [result |-> "true"]

(***************************************************************************)
(* Decoded features and ShapefileService.convertToPlotData                 *)
(***************************************************************************)
\* an attribute dictionary without keys
NoProps == [key \in {} |-> Undefined]

\* feature.properties || {}
PropsOf(feature) ==
    IF feature.properties = Undefined THEN NoProps ELSE feature.properties

\* JSON.stringify(geometry): the text of the geometry, no longer an object
Stringify(g) == [json |-> g]

\* PlotDataOf taking the area from the attribute AREA_SQM when there is one
PlotDataOfTrustsAttribute(feature, area, code) ==
    LET properties == PropsOf(feature)
    IN  [plot_code  |-> Or(Or(Or(Get(properties, "PLOT_CODE"),
                                 Get(properties, "plot_code")),
                              Get(properties, "ID")),
                           Str(code)),
         geometry   |-> Stringify(feature.geometry),
         area_sqm   |-> IF "AREA_SQM" \in DOMAIN properties
                        THEN properties["AREA_SQM"].n ELSE area,
         land_use   |-> Or(Or(Or(Get(properties, "LAND_USE"),
                                 Get(properties, "land_use")),
                              Get(properties, "USE")),
                           Get(properties, "TYPE")),
         owner_name |-> Or(Or(Get(properties, "OWNER"),
                              Get(properties, "owner")),
                           Get(properties, "OWNER_NAME")),
         price_usd  |-> Or(Or(Get(properties, "PRICE_USD"),
                              Get(properties, "price")),
                           Get(properties, "VALUE")),
         notes      |-> Or(Or(Get(properties, "NOTES"),
                              Get(properties, "notes")),
                           Get(properties, "REMARKS")),
         attributes |-> properties]

\* the object literal of convertToPlotData; code is the plot code synthesized
\* from Date.now() and Math.random() for this feature, area is turf.area(feature)
PlotDataOf(feature, area, code) ==
    LET properties == PropsOf(feature)
    IN  [plot_code  |-> Or(Or(Or(Get(properties, "PLOT_CODE"),
                                 Get(properties, "plot_code")),
                              Get(properties, "ID")),
                           Str(code)),
         geometry   |-> Stringify(feature.geometry),
         area_sqm   |-> area,
         land_use   |-> Or(Or(Or(Get(properties, "LAND_USE"),
                                 Get(properties, "land_use")),
                              Get(properties, "USE")),
                           Get(properties, "TYPE")),
         owner_name |-> Or(Or(Get(properties, "OWNER"),
                              Get(properties, "owner")),
                           Get(properties, "OWNER_NAME")),
         price_usd  |-> Or(Or(Get(properties, "PRICE_USD"),
                              Get(properties, "price")),
                           Get(properties, "VALUE")),
         notes      |-> Or(Or(Get(properties, "NOTES"),
                              Get(properties, "notes")),
                           Get(properties, "REMARKS")),
         attributes |-> properties]

\* what the loop has built so far: the rows pushed, what became of each
\* feature met ("pushed", "skipped" by the validator with console.warn, or
\* "threw" into the catch with console.error), and the validator's errors
ConvertStart == [plotsData |-> << >>, outcomes |-> << >>, warnings |-> << >>]

\* ConvertFeature with plotsData.unshift(plotData) in place of push
ConvertFeatureUnshift(acc, feature, code) ==
    IF feature.geometry = NullGeometry
    THEN [acc EXCEPT !.outcomes = Append(@, "threw"),
                     !.warnings = Append(@, << >>)]
    ELSE LET plotData   == PlotDataOf(feature, feature.geometry.area, code)
             validation == validateGeometry(feature.geometry)
         IN  IF ~validation.isValid
             THEN [acc EXCEPT !.outcomes = Append(@, "skipped"),
                              !.warnings = Append(@, validation.errors)]
             ELSE [acc EXCEPT !.plotsData = <<plotData>> \o @,
                              !.outcomes = Append(@, "pushed"),
                              !.warnings = Append(@, << >>)]

\* one pass of the body of the for loop.  turf.area(feature) throws on a
\* feature without geometry; the catch logs and continues
ConvertFeature(acc, feature, code) ==
    IF feature.geometry = NullGeometry
    THEN [acc EXCEPT !.outcomes = Append(@, "threw"),
                     !.warnings = Append(@, << >>)]
    ELSE LET plotData   == PlotDataOf(feature, feature.geometry.area, code)
             validation == validateGeometry(feature.geometry)
         IN  IF ~validation.isValid
             THEN [acc EXCEPT !.outcomes = Append(@, "skipped"),
                              !.warnings = Append(@, validation.errors)]
             ELSE [acc EXCEPT !.plotsData = Append(@, plotData),
                              !.outcomes = Append(@, "pushed"),
                              !.warnings = Append(@, << >>)]

\* ConvertLoop with the try around the loop instead of inside it: the first
\* feature that throws ends the loop
RECURSIVE ConvertLoopTryOutside(_, _, _, _)
ConvertLoopTryOutside(acc, features, codes, i) ==
    IF i > Len(features) \/ features[i].geometry = NullGeometry
    THEN acc
    ELSE ConvertLoopTryOutside(ConvertFeature(acc, features[i], codes[i]),
                               features, codes, i + 1)

RECURSIVE ConvertLoop(_, _, _, _)
ConvertLoop(acc, features, codes, i) ==
    IF i > Len(features)
    THEN acc
    ELSE ConvertLoop(ConvertFeature(acc, features[i], codes[i]),
                     features, codes, i + 1)

\* convertToPlotData(shapefileData); codes[i] is the plot code the i-th pass
\* of the loop would synthesize
convertToPlotData(data, codes) == ConvertLoop(ConvertStart, data.features, codes, 1)

(***************************************************************************)
(* File names.  A name is the sequence of its characters, so that          *)
(* toLowerCase, endsWith and split('.').pop() are computed as the code     *)
(* computes them.                                                          *)
(***************************************************************************)
UpperCase == <<"A", "B", "C", "D", "E", "F", "G", "H", "I", "J", "K", "L", "M",
               "N", "O", "P", "Q", "R", "S", "T", "U", "V", "W", "X", "Y", "Z">>
LowerCase == <<"a", "b", "c", "d", "e", "f", "g", "h", "i", "j", "k", "l", "m",
               "n", "o", "p", "q", "r", "s", "t", "u", "v", "w", "x", "y", "z">>

ToLowerChar(c) ==
    IF \E i \in DOMAIN UpperCase : UpperCase[i] = c
    THEN LowerCase[CHOOSE i \in DOMAIN UpperCase : UpperCase[i] = c]
    ELSE c

\* name.toLowerCase()
ToLowerCase(name) == [i \in DOMAIN name |-> ToLowerChar(name[i])]

\* name.endsWith(suffix)
EndsWith(name, suffix) ==
    /\ Len(name) >= Len(suffix)
    /\ SubSeq(name, Len(name) - Len(suffix) + 1, Len(name)) = suffix

\* name.split('.').pop(): what follows the last dot, the whole name when it
\* has no dot
LastSegment(name) ==
    LET dots == {i \in DOMAIN name : name[i] = "."}
    IN  IF dots = {}
        THEN name
        ELSE SubSeq(name, (CHOOSE i \in dots : \A j \in dots : j <= i) + 1, Len(name))

\* f.replace('.', ''): f without its first dot
RemoveFirstDot(f) ==
    LET dots == {i \in DOMAIN f : f[i] = "."}
    IN  IF dots = {}
        THEN f
        ELSE LET d == CHOOSE i \in dots : \A j \in dots : i <= j
             IN  SubSeq(f, 1, d - 1) \o SubSeq(f, d + 1, Len(f))

DotZip == <<".", "z", "i", "p">>
DotShp == <<".", "s", "h", "p">>
DotShx == <<".", "s", "h", "x">>
DotDbf == <<".", "d", "b", "f">>
DotPrj == <<".", "p", "r", "j">>
DotCpg == <<".", "c", "p", "g">>

(***************************************************************************)
(* ShapefileService.getSupportedFormats and validateFile                   *)
(***************************************************************************)
getSupportedFormats == <<DotZip, DotShp, DotShx, DotDbf, DotPrj, DotCpg>>

\* const maxSize = 50 * 1024 * 1024
MaxFileSize == 50 * 1024 * 1024

ErrFileSize == "File size exceeds 50MB limit"
ErrFileFormat ==
    "Unsupported file format. Please upload a ZIP file containing shapefile components."

\* validateFile with >= in place of > in the test of the size
validateFileAtLeast(file) ==
    LET e1 == PushIf(<< >>, file.size >= MaxFileSize, ErrFileSize)
        extension == LastSegment(ToLowerCase(file.name))
        supportedFormats == {RemoveFirstDot(getSupportedFormats[i]) :
                                i \in DOMAIN getSupportedFormats}
        e2 == PushIf(e1, extension = << >> \/ extension \notin supportedFormats,
                     ErrFileFormat)
    IN  [isValid |-> Len(e2) = 0, errors |-> e2]

validateFile(file) ==
    LET e1 == PushIf(<< >>, file.size > MaxFileSize, ErrFileSize)
        extension == LastSegment(ToLowerCase(file.name))
        supportedFormats == {RemoveFirstDot(getSupportedFormats[i]) :
                                i \in DOMAIN getSupportedFormats}
        e2 == PushIf(e1, extension = << >> \/ extension \notin supportedFormats,
                     ErrFileFormat)
    IN  [isValid |-> Len(e2) = 0, errors |-> e2]

(***************************************************************************)
(* The files a user can drop, and the filter of useDropzone: a file        *)
(* reaches onDrop when its size is at most maxSize and its MIME type is    *)
(* one of the accepted types or its name ends in .zip (react-dropzone      *)
(* compares the lower-cased name); every other file goes to the            *)
(* rejections, which the component does not read.                          *)
(***************************************************************************)
FileNames ==
    { <<"a", ".", "Z", "I", "P">>,
      <<"a", ".", "s", "h", "p">>,
      <<"a", ".", "t", "x", "t">> }

AcceptedMimeTypes == {"application/zip", "application/x-zip-compressed"}

MimeTypes == {"application/zip", "application/octet-stream"}

FileSizes == {MaxFileSize, MaxFileSize + 1}

Files == [name : FileNames, type : MimeTypes, size : FileSizes]

DropzoneAccepts(file) ==
    /\ file.size <= 50 * 1024 * 1024
    /\ \/ file.type \in AcceptedMimeTypes
       \/ EndsWith(ToLowerCase(file.name), DotZip)

\* the error codes of a file's entry in fileRejections: the type is looked at
\* first, then the size
DropzoneErrors(file) ==
    (IF file.type \in AcceptedMimeTypes \/ EndsWith(ToLowerCase(file.name), DotZip)
     THEN << >> ELSE <<"file-invalid-type">>)
    \o (IF file.size > 50 * 1024 * 1024 THEN <<"file-too-large">> ELSE << >>)

DropzoneAccepted == {file \in Files : DropzoneAccepts(file)}

(***************************************************************************)
(* Errors.  isError: the value is an instance of Error (an error of the    *)
(* store client is a plain object with a code).                            *)
(***************************************************************************)
ErrorOf(message) == [isError |-> TRUE, code |-> "", message |-> message]

\* handleSupabaseError
handleSupabaseError(error) ==
    CASE error.code = "PGRST116" -> "No data found"
      [] error.code = "23505" -> "This record already exists"
      [] error.code = "23503" -> "Referenced record not found"
      [] error.code = "42501" -> "Permission denied"
      [] OTHER -> IF error.message # "" THEN error.message
                  ELSE "An unexpected error occurred"

\* errors the store client can answer an insert or an rpc with
StoreErrors ==
    { [isError |-> FALSE, code |-> "42501", message |-> "permission denied"] }

(***************************************************************************)
(* The uploaded file's content, as JSZip.loadAsync finds it: not a ZIP     *)
(* package, or a package with entries.                                     *)
(***************************************************************************)
EntryShp == <<"P", ".", "S", "H", "P">>
EntryDbf == <<"p", ".", "d", "b", "f">>
EntryPrj == <<"p", ".", "p", "r", "j">>
EntryXml == <<"p", ".", "s", "h", "p", ".", "x", "m", "l">>

NotZip == [zip |-> FALSE]

\* packages without entries, with one of the two required files (and a name
\* that only contains ".shp"), and with both
ArchiveEntries ==
    { {}, {EntryShp, EntryPrj}, {EntryDbf, EntryXml},
      {EntryShp, EntryDbf}, {EntryShp, EntryDbf, EntryPrj} }

Archives == {NotZip} \cup {[zip |-> TRUE, entries |-> e] : e \in ArchiveEntries}

\* Object.keys(files).find(name => name.toLowerCase().endsWith(suffix)) finds
\* an entry
FindEntry(entries, suffix) ==
    \E name \in entries : EndsWith(ToLowerCase(name), suffix)

MsgNotZip == "Can't find end of central directory : is this a zip file ?"
MsgMissingFiles == "Shapefile must contain .shp and .dbf files"
MsgParseNotZip ==
    "Failed to parse shapefile: Can't find end of central directory : is this a zip file ?"
MsgParseMissingFiles ==
    "Failed to parse shapefile: Shapefile must contain .shp and .dbf files"

\* `Failed to parse shapefile: ${error.message}`
FailedToParse(message) ==
    IF message = MsgMissingFiles THEN MsgParseMissingFiles ELSE MsgParseNotZip

(***************************************************************************)
(* ShapefileService.generateMockFeaturesFromFile: ten squares around New   *)
(* York with the codes LP001..LP010.  A draw stands for the values of      *)
(* Math.random(): the land use of feature i is LandUses[(i + landUse) % 4],*)
(* and AREA_SQM and PRICE_USD are the draw's for every feature (the        *)
(* pipeline branches on none of the three).                                *)
(***************************************************************************)
NumMockFeatures == 10

MockPlotCodes == <<"LP001", "LP002", "LP003", "LP004", "LP005",
                   "LP006", "LP007", "LP008", "LP009", "LP010">>
MockOwners == <<"Owner 1", "Owner 2", "Owner 3", "Owner 4", "Owner 5",
                "Owner 6", "Owner 7", "Owner 8", "Owner 9", "Owner 10">>
LandUses == <<"Residential", "Commercial", "Agricultural", "Industrial">>

MockDraws ==
    { [landUse |-> 0, areaSqm |-> 500, priceUsd |-> 50000],
      [landUse |-> 1, areaSqm |-> 2499, priceUsd |-> 249999] }

MockSquare ==
    [type |-> "Polygon", ringsOk |-> TRUE, valid |-> TRUE, kinks |-> 0,
     area |-> MockArea]

generateMockFeaturesFromFile(draw) ==
    [i \in 1..NumMockFeatures |->
        [geometry |-> MockSquare,
         properties |->
            ("PLOT_CODE" :> Str(MockPlotCodes[i])) @@
            ("LAND_USE" :> Str(LandUses[((i + draw.landUse) % 4) + 1])) @@
            ("OWNER" :> Str(MockOwners[i])) @@
            ("AREA_SQM" :> Num(draw.areaSqm)) @@
            ("PRICE_USD" :> Num(draw.priceUsd))]]

(***************************************************************************)
(* ShapefileService.parseShapefileFromZip: the data, or the error thrown   *)
(***************************************************************************)
\* parseShapefileFromZip with && in place of || in the test of the required
\* files
parseShapefileFromZipBothMissing(archive, draw) ==
    IF ~archive.zip
    THEN [ok |-> FALSE, generated |-> 0, error |-> ErrorOf(FailedToParse(MsgNotZip))]
    ELSE IF ~FindEntry(archive.entries, DotShp) /\ ~FindEntry(archive.entries, DotDbf)
    THEN [ok |-> FALSE, generated |-> 0,
          error |-> ErrorOf(FailedToParse(MsgMissingFiles))]
    ELSE LET mockFeatures == generateMockFeaturesFromFile(draw)
             prjFile == FindEntry(archive.entries, DotPrj)
         IN  [ok |-> TRUE, generated |-> Len(mockFeatures),
              data |-> [features |-> mockFeatures,
                        projection |-> IF prjFile THEN "EPSG:4326" ELSE "undefined",
                        metadata |-> [fileCount |-> Cardinality(archive.entries),
                                      hasProjection |-> prjFile]]]

parseShapefileFromZip(archive, draw) ==
    IF ~archive.zip
    THEN [ok |-> FALSE, generated |-> 0, error |-> ErrorOf(FailedToParse(MsgNotZip))]
    ELSE IF ~FindEntry(archive.entries, DotShp) \/ ~FindEntry(archive.entries, DotDbf)
    THEN [ok |-> FALSE, generated |-> 0,
          error |-> ErrorOf(FailedToParse(MsgMissingFiles))]
    ELSE LET mockFeatures == generateMockFeaturesFromFile(draw)
             prjFile == FindEntry(archive.entries, DotPrj)
         IN  [ok |-> TRUE, generated |-> Len(mockFeatures),
              data |-> [features |-> mockFeatures,
                        projection |-> IF prjFile THEN "EPSG:4326" ELSE "undefined",
                        metadata |-> [fileCount |-> Cardinality(archive.entries),
                                      hasProjection |-> prjFile]]]

(***************************************************************************)
(* The store: bulk_import_plots.                                           *)
(***************************************************************************)
\* values of the column error_message: NULL, a text, and
\* array_to_string(errors, '; ')
SqlNull == [k |-> "null"]
SqlText(message) == [k |-> "text", text |-> message]
ArrayToString(errors) == [k |-> "joined", parts |-> errors]

SqlUnique == "duplicate key value violates unique constraint"
SqlNotNull == "null value in column plot_code violates not-null constraint"

\* InsertError for a column plot_code that is NOT NULL and not UNIQUE
InsertErrorNoUnique(rows, record) ==
    IF record.plot_code = Undefined THEN SqlNotNull ELSE ""

\* SQLERRM of the INSERT of one record, "" when the row is inserted:
\* plot_code is UNIQUE NOT NULL
InsertError(rows, record) ==
    IF record.plot_code = Undefined THEN SqlNotNull
    ELSE IF \E row \in rows : row.plot_code = record.plot_code THEN SqlUnique
    ELSE ""

PlotRow(record, import_id) ==
    [plot_code |-> record.plot_code, geometry |-> record.geometry,
     area_sqm |-> record.area_sqm, land_use |-> record.land_use,
     owner_name |-> record.owner_name, price_usd |-> record.price_usd,
     notes |-> record.notes, status |-> "available", import_id |-> import_id]

\* BulkImportLoop without the BEGIN ... EXCEPTION block around the INSERT of
\* one record, the handler being around the loop: the first row that fails
\* ends the loop
RECURSIVE BulkImportLoopHandlerOutside(_, _, _, _)
BulkImportLoopHandlerOutside(acc, plots_data, import_id, i) ==
    IF i > Len(plots_data)
    THEN acc
    ELSE LET sqlerrm == InsertError(acc.rows, plots_data[i])
         IN  IF sqlerrm = ""
             THEN BulkImportLoopHandlerOutside(
                     [acc EXCEPT !.rows = @ \cup {PlotRow(plots_data[i], import_id)},
                                 !.inserted_count = @ + 1],
                     plots_data, import_id, i + 1)
             ELSE [acc EXCEPT !.error_count = @ + 1,
                              !.errors = Append(@, [plot |-> plots_data[i].plot_code,
                                                    sqlerrm |-> sqlerrm])]

\* the FOREACH loop: rows, inserted_count, error_count, errors
RECURSIVE BulkImportLoop(_, _, _, _)
BulkImportLoop(acc, plots_data, import_id, i) ==
    IF i > Len(plots_data)
    THEN acc
    ELSE LET sqlerrm == InsertError(acc.rows, plots_data[i])
         IN  BulkImportLoop(
                IF sqlerrm = ""
                THEN [acc EXCEPT !.rows = @ \cup {PlotRow(plots_data[i], import_id)},
                                 !.inserted_count = @ + 1]
                ELSE [acc EXCEPT !.error_count = @ + 1,
                                 !.errors = Append(@, [plot |-> plots_data[i].plot_code,
                                                       sqlerrm |-> sqlerrm])],
                plots_data, import_id, i + 1)

\* bulk_import_plots with the status decided by inserted_count > 0 in place
\* of error_count = 0
bulk_import_plots_AnyInserted(rows, importRows, plots_data, import_id) ==
    LET done == BulkImportLoop([rows |-> rows, inserted_count |-> 0,
                                error_count |-> 0, errors |-> << >>],
                               plots_data, import_id, 1)
    IN  [plots   |-> done.rows,
         imports |-> [id \in DOMAIN importRows |->
                        IF id = import_id
                        THEN [importRows[id] EXCEPT
                                !.plots_count = done.inserted_count,
                                !.status = IF done.inserted_count > 0
                                           THEN "completed" ELSE "failed",
                                !.error_message = IF done.error_count > 0
                                                  THEN ArrayToString(done.errors)
                                                  ELSE SqlNull]
                        ELSE importRows[id]],
         result  |-> [imported_count |-> done.inserted_count,
                      error_count |-> done.error_count,
                      errors |-> done.errors]]

\* bulk_import_plots(plots_data, import_id) on the tables rows and importRows:
\* the tables afterwards and the json returned
bulk_import_plots(rows, importRows, plots_data, import_id) ==
    LET done == BulkImportLoop([rows |-> rows, inserted_count |-> 0,
                                error_count |-> 0, errors |-> << >>],
                               plots_data, import_id, 1)
    IN  [plots   |-> done.rows,
         imports |-> [id \in DOMAIN importRows |->
                        IF id = import_id
                        THEN [importRows[id] EXCEPT
                                !.plots_count = done.inserted_count,
                                !.status = IF done.error_count = 0
                                           THEN "completed" ELSE "failed",
                                !.error_message = IF done.error_count > 0
                                                  THEN ArrayToString(done.errors)
                                                  ELSE SqlNull]
                        ELSE importRows[id]],
         result  |-> [imported_count |-> done.inserted_count,
                      error_count |-> done.error_count,
                      errors |-> done.errors]]

(***************************************************************************)
(* State.                                                                  *)
(*   geometry, validation, plotValidation                                  *)
(*       a geometry and what validateGeometry and validatePlotGeometry     *)
(*       answered for it                                                   *)
(*   sqlValidation                                                         *)
(*       what the database's validate_plot_geometry answered for it        *)
(*   shapefileData, converted                                              *)
(*       the argument of convertToPlotData and what it built               *)
(*   files      the upload component's list (useState)                     *)
(*   runs       the invocations of onDrop, each with its position          *)
(*   imports    the store's table shapefile_imports                        *)
(*   plots      the store's table plots                                    *)
(*   uploads    per accepted file, what the pipeline did for it            *)
(*   plotStatus, orders                                                    *)
(*              the status of the plots that can be ordered, and the table *)
(*              orders                                                     *)
(*   createCalls                                                           *)
(*              the calls of create_order_transaction, each a transaction  *)
(*              with its position                                          *)
(*   orderCall  the last call of approve_order_transaction or of an        *)
(*              OrderService update, and its outcome                       *)
(*   deleteCall the last call of deleteShapefileImport, with its position  *)
(*   bulkCall, bulkResult                                                  *)
(*              the arguments of a call of bulk_import_plots and the json  *)
(*              it returned                                                *)
(*   fileRejections                                                        *)
(*              the files useDropzone refused at the last drop, with the   *)
(*              error codes (state of the hook; the component does not     *)
(*              read it)                                                   *)
(***************************************************************************)
VARIABLES geometry, validation, plotValidation, sqlValidation,
                 shapefileData, converted,
          files, runs, imports, plots, uploads, fileRejections,
          bulkCall, bulkResult,
          plotStatus, orders, createCalls, orderCall, deleteCall

orderVars == <<plotStatus, orders, createCalls, orderCall>>
pureVars == <<geometry, validation, plotValidation, sqlValidation,
                 shapefileData, converted,
              bulkCall, bulkResult, orderVars, deleteCall>>
pipelineVars == <<files, runs, imports, plots, uploads, fileRejections>>
vars == <<geometry, validation, plotValidation, sqlValidation,
                 shapefileData, converted,
          files, runs, imports, plots, uploads, fileRejections,
          bulkCall, bulkResult, plotStatus, orders, createCalls, orderCall,
          deleteCall>>

\* a function that has not been called has no result
NotCalled == [called |-> FALSE]

PipelineIdle ==
    /\ files = << >>
    /\ runs = << >>
    /\ imports = << >>
    /\ plots = {}
    /\ uploads = << >>
    /\ fileRejections = << >>

NoOrderCall == [seq |-> 0, op |-> "none", order_id |-> 0, error |-> ""]

OrdersIdle ==
    /\ plotStatus = << >>
    /\ orders = << >>
    /\ createCalls = << >>
    /\ orderCall = NoOrderCall

\* deleteShapefileImport has not been called
NoDelete == [seq |-> 0, id |-> 0, pc |-> "done", outcome |-> "none"]

DeleteIdle == deleteCall = NoDelete

NoCall == [plots_data |-> << >>, import_id |-> 0]

BulkIdle ==
    /\ bulkCall = NoCall
    /\ bulkResult = NotCalled

\* all sequences over S of length at most n
SeqsUpTo(S, n) == UNION {[1..k -> S] : k \in 0..n}

\* plot codes the fallback `PLOT_${Date.now()}_${random}` can produce
SynthCodes == {"PLOT_1_a", "PLOT_1_b"}

(***************************************************************************)
(* SpecValidate: the validators, and convertToPlotData on the one feature  *)
(* that carries the geometry, for every geometry.                          *)
(***************************************************************************)
ValidateProps == {Undefined, ("PLOT_CODE" :> Str("LP001"))}

InitValidate ==
    /\ geometry \in Geometries
    /\ validation = NotCalled
    /\ plotValidation = NotCalled
    /\ sqlValidation = NotCalled
    /\ shapefileData \in
         {[features |-> <<[geometry |-> geometry, properties |-> p]>>] :
            p \in ValidateProps}
    /\ converted = NotCalled
    /\ PipelineIdle
    /\ BulkIdle
    /\ OrdersIdle
    /\ DeleteIdle

ValidateGeometry ==
    /\ validation = NotCalled
    /\ validation' = validateGeometry(geometry)
    /\ UNCHANGED <<geometry, plotValidation, sqlValidation,
                 shapefileData, converted, pipelineVars,
                 bulkCall, bulkResult, orderVars, deleteCall>>

ValidatePlotGeometry ==
    /\ plotValidation = NotCalled
    /\ plotValidation' = validatePlotGeometry(geometry)
    /\ UNCHANGED <<geometry, validation, sqlValidation, shapefileData, converted,
                 pipelineVars,
                 bulkCall, bulkResult, orderVars, deleteCall>>

ConvertToPlotData ==
    /\ converted = NotCalled
    /\ \E codes \in [1..Len(shapefileData.features) -> SynthCodes] :
          converted' = convertToPlotData(shapefileData, codes)
    /\ UNCHANGED <<geometry, validation, plotValidation, sqlValidation,
                 shapefileData, pipelineVars,
                 bulkCall, bulkResult, orderVars, deleteCall>>

NextValidate ==
    \/ ValidateGeometry
    \/ ValidatePlotGeometry
    \/ ConvertToPlotData

SpecValidate == InitValidate /\ [][NextValidate]_vars

(***************************************************************************)
(* SpecAgree: the three validators on the same geometry, with areas around *)
(* the thresholds of each.                                                 *)
(***************************************************************************)
AgreeAreas ==
    {0, AreaMin, MockArea, SqlAreaMax, SqlAreaMax + 1, AreaMax, AreaMax + 1}

AgreeGeometries ==
    {NullGeometry} \cup
    {g \in [type : GeomTypes, ringsOk : BOOLEAN, valid : BOOLEAN,
            kinks : 0..MaxKinks, area : AgreeAreas, area3857 : AgreeAreas] :
        /\ PossibleGeometry(g)
        /\ g.area3857 >= g.area
        /\ g.type = "Point" => g.area3857 = 0}

InitAgree ==
    /\ geometry \in AgreeGeometries
    /\ validation = NotCalled
    /\ plotValidation = NotCalled
    /\ sqlValidation = NotCalled
    /\ shapefileData = NotCalled
    /\ converted = NotCalled
    /\ PipelineIdle
    /\ BulkIdle
    /\ OrdersIdle
    /\ DeleteIdle

\* SELECT validate_plot_geometry(geom)
SqlValidatePlotGeometry ==
    /\ sqlValidation = NotCalled
    /\ sqlValidation' = validate_plot_geometry(geometry)
    /\ UNCHANGED <<geometry, validation, plotValidation, shapefileData, converted,
                   pipelineVars, bulkCall, bulkResult, orderVars, deleteCall>>

NextAgree ==
    \/ ValidateGeometry
    \/ ValidatePlotGeometry
    \/ SqlValidatePlotGeometry

SpecAgree == InitAgree /\ [][NextAgree]_vars

(***************************************************************************)
(* SpecConvert: convertToPlotData on feature sequences.                    *)
(***************************************************************************)
\* geometries of every kind the loop treats differently: none, not a
\* polygon, rings turf.polygon refuses, too small, and acceptable
SampleGeometries ==
    {g \in Geometries :
        \/ g = NullGeometry
        \/ /\ g.type \in {"Polygon", "Point"}
           /\ g.kinks = 0
           /\ g.valid = g.ringsOk
           /\ g.area \in {0, MockArea}}

SampleProps ==
    {NoProps, ("PLOT_CODE" :> Str("LP001")), ("PLOT_CODE" :> Str("LP002"))}

SampleFeatures == [geometry : SampleGeometries, properties : SampleProps]

InitConvert ==
    /\ geometry = NullGeometry
    /\ validation = NotCalled
    /\ plotValidation = NotCalled
    /\ sqlValidation = NotCalled
    /\ shapefileData \in [features : SeqsUpTo(SampleFeatures, MaxFeatures)]
    /\ converted = NotCalled
    /\ PipelineIdle
    /\ BulkIdle
    /\ OrdersIdle
    /\ DeleteIdle

NextConvert == ConvertToPlotData

SpecConvert == InitConvert /\ [][NextConvert]_vars

(***************************************************************************)
(* SpecAliases: convertToPlotData on acceptable features whose attributes  *)
(* carry the plot code under several aliases, with values || takes for     *)
(* false among them.                                                       *)
(***************************************************************************)
AliasProps ==
    { NoProps,
      ("PLOT_CODE" :> Str("LP001")) @@ ("ID" :> Str("7")),
      ("PLOT_CODE" :> Str("")) @@ ("plot_code" :> Str("B2")),
      ("PLOT_CODE" :> Num(0)) @@ ("ID" :> Num(7)),
      ("ID" :> Num(0)),
      ("plot_code" :> Str("B2")) @@ ("ID" :> Num(7)) }

AliasFeatures == [geometry : {MockSquare}, properties : AliasProps]

InitAliases ==
    /\ geometry = NullGeometry
    /\ validation = NotCalled
    /\ plotValidation = NotCalled
    /\ sqlValidation = NotCalled
    /\ shapefileData \in [features : SeqsUpTo(AliasFeatures, MaxFeatures)]
    /\ converted = NotCalled
    /\ PipelineIdle
    /\ BulkIdle
    /\ OrdersIdle
    /\ DeleteIdle

NextAliases == ConvertToPlotData

SpecAliases == InitAliases /\ [][NextAliases]_vars

(***************************************************************************)
(* SpecCoded: convertToPlotData on features that all carry PLOT_CODE, so   *)
(* that no plot code is synthesized.                                       *)
(***************************************************************************)
CodedProps == {("PLOT_CODE" :> Str("LP001")), ("PLOT_CODE" :> Str("LP002"))}

CodedFeatures == [geometry : SampleGeometries, properties : CodedProps]

InitCoded ==
    /\ geometry = NullGeometry
    /\ validation = NotCalled
    /\ plotValidation = NotCalled
    /\ sqlValidation = NotCalled
    /\ shapefileData \in [features : SeqsUpTo(CodedFeatures, MaxFeatures)]
    /\ converted = NotCalled
    /\ PipelineIdle
    /\ BulkIdle
    /\ OrdersIdle
    /\ DeleteIdle

NextCoded == ConvertToPlotData

SpecCoded == InitCoded /\ [][NextCoded]_vars

(***************************************************************************)
(* SpecCase: convertToPlotData on features whose attribute keys are        *)
(* written in upper case or in mixed case.                                 *)
(***************************************************************************)
CaseProps ==
    { ("PLOT_CODE" :> Str("LP001")) @@ ("OWNER" :> Str("Ann")),
      ("Plot_Code" :> Str("LP001")) @@ ("Owner" :> Str("Ann")) }

CaseFeatures == [geometry : SampleGeometries, properties : CaseProps]

InitCase ==
    /\ geometry = NullGeometry
    /\ validation = NotCalled
    /\ plotValidation = NotCalled
    /\ sqlValidation = NotCalled
    /\ shapefileData \in [features : SeqsUpTo(CaseFeatures, MaxFeatures)]
    /\ converted = NotCalled
    /\ PipelineIdle
    /\ BulkIdle
    /\ OrdersIdle
    /\ DeleteIdle

NextCase == ConvertToPlotData

SpecCase == InitCase /\ [][NextCase]_vars

(***************************************************************************)
(* SpecArea: convertToPlotData on polygons with areas at the two           *)
(* thresholds, whose attributes state an area of their own or none.        *)
(***************************************************************************)
AreaGeometries ==
    [type : {"Polygon"}, ringsOk : {TRUE}, valid : {TRUE}, kinks : {0},
     area : {0, AreaMin, AreaMax, AreaMax + 1}]

AreaProps ==
    { ("PLOT_CODE" :> Str("LP001")),
      ("PLOT_CODE" :> Str("LP001")) @@ ("AREA_SQM" :> Num(500)),
      ("PLOT_CODE" :> Str("LP001")) @@ ("AREA_SQM" :> Num(AreaMax + 1)) }

AreaFeatures == [geometry : AreaGeometries, properties : AreaProps]

InitArea ==
    /\ geometry = NullGeometry
    /\ validation = NotCalled
    /\ plotValidation = NotCalled
    /\ sqlValidation = NotCalled
    /\ shapefileData \in [features : SeqsUpTo(AreaFeatures, MaxFeatures)]
    /\ converted = NotCalled
    /\ PipelineIdle
    /\ BulkIdle
    /\ OrdersIdle
    /\ DeleteIdle

NextArea == ConvertToPlotData

SpecArea == InitArea /\ [][NextArea]_vars

(***************************************************************************)
(* SpecPrice: convertToPlotData on acceptable features whose attributes    *)
(* carry no price, a price, a negative price or a text that is no number.  *)
(***************************************************************************)
PriceProps ==
    { ("PLOT_CODE" :> Str("LP001")),
      ("PLOT_CODE" :> Str("LP001")) @@ ("price" :> Num(100)),
      ("PLOT_CODE" :> Str("LP001")) @@ ("PRICE_USD" :> Num(-5)),
      ("PLOT_CODE" :> Str("LP001")) @@ ("PRICE_USD" :> Str("abc")) }

PriceFeatures == [geometry : {MockSquare}, properties : PriceProps]

InitPrice ==
    /\ geometry = NullGeometry
    /\ validation = NotCalled
    /\ plotValidation = NotCalled
    /\ sqlValidation = NotCalled
    /\ shapefileData \in [features : SeqsUpTo(PriceFeatures, MaxFeatures)]
    /\ converted = NotCalled
    /\ PipelineIdle
    /\ BulkIdle
    /\ OrdersIdle
    /\ DeleteIdle

NextPrice == ConvertToPlotData

SpecPrice == InitPrice /\ [][NextPrice]_vars

(***************************************************************************)
(* SpecBulk: bulk_import_plots on batches of the records convertToPlotData *)
(* builds, against a table plots that is empty or holds a row of an        *)
(* earlier import.                                                         *)
(***************************************************************************)
MaxRecords == 3

BulkProps ==
    {NoProps, ("PLOT_CODE" :> Str("LP001")), ("PLOT_CODE" :> Str("LP002"))}

BulkRecords ==
    {PlotDataOf([geometry |-> MockSquare, properties |-> p], MockArea, "PLOT_1_a") :
        p \in BulkProps}

\* the import records: 1 is the import of the call, 2 an earlier one
BulkImports ==
    << [original_filename |-> <<"a", ".", "z", "i", "p">>, uploaded_by |-> "u1",
        file_size |-> 1, status |-> "processing", plots_count |-> 0,
        error_message |-> SqlNull],
       [original_filename |-> <<"b", ".", "z", "i", "p">>, uploaded_by |-> "u1",
        file_size |-> 1, status |-> "completed", plots_count |-> 1,
        error_message |-> SqlNull] >>

BulkTables ==
    { {},
      {PlotRow(PlotDataOf([geometry |-> MockSquare,
                           properties |-> ("PLOT_CODE" :> Str("LP001"))],
                          MockArea, "PLOT_1_a"), 2)} }

InitBulk ==
    /\ geometry = NullGeometry
    /\ validation = NotCalled
    /\ plotValidation = NotCalled
    /\ sqlValidation = NotCalled
    /\ shapefileData = [features |-> << >>]
    /\ converted = NotCalled
    /\ files = << >>
    /\ runs = << >>
    /\ uploads = << >>
    /\ fileRejections = << >>
    /\ imports = BulkImports
    /\ plots \in BulkTables
    /\ bulkCall \in [plots_data : SeqsUpTo(BulkRecords, MaxRecords), import_id : {1}]
    /\ bulkResult = NotCalled
    /\ OrdersIdle
    /\ DeleteIdle

\* supabase.rpc('bulk_import_plots', { plots_data, import_id })
BulkImportPlots ==
    /\ bulkResult = NotCalled
    /\ LET done == bulk_import_plots(plots, imports, bulkCall.plots_data,
                                     bulkCall.import_id)
       IN  /\ plots' = done.plots
           /\ imports' = done.imports
           /\ bulkResult' = done.result
    /\ UNCHANGED <<geometry, validation, plotValidation, sqlValidation,
                 shapefileData, converted,
                   files, runs, uploads, fileRejections, bulkCall, orderVars,
                   deleteCall>>

NextBulk == BulkImportPlots

SpecBulk == InitBulk /\ [][NextBulk]_vars

(***************************************************************************)
(* Spec: the upload component and ShapefileService.uploadShapefile.        *)
(*                                                                         *)
(* A run is one invocation of onDrop.  Between two awaits it runs without  *)
(* interruption, so its position is the await it is waiting at:            *)
(*   "insert"      the insert of the import record                         *)
(*   "loadZip"     JSZip.loadAsync(file)                                   *)
(*   "bulkImport"  the rpc bulk_import_plots                               *)
(*   "markFailed"  the update of the import record in the catch            *)
(*   "done"        the loop over the accepted files has ended              *)
(***************************************************************************)
\* invocations of onDrop
MaxDrops == 2
\* files dropped in all
MaxFiles == 2

Users == {"u1"}
NoUser == "null"

NoError == [isError |-> FALSE, code |-> "", message |-> ""]
NotOpened == [opened |-> FALSE]

\* uploadShapefile has not returned { importId, message }
NoResult == [returned |-> FALSE]

\* `Successfully imported ${result.imported_count} plots`
SuccessMessage(count) == [text |-> "Successfully imported plots", count |-> count]

\* parseInt(result.message.match(/\d+/)?.[0] || '0')
ParsePlotsCount(message) == message.count

\* setFiles(prev => prev.map(f => f.id === fileId ? { ...f, ...changes } : f))
SetFile(fs, fileId, changes) ==
    [i \in DOMAIN fs |-> IF fs[i].id = fileId THEN changes @@ fs[i] ELSE fs[i]]

\* the same on the record of what the pipeline did for the file
Note(ups, fileId, changes) ==
    [i \in DOMAIN ups |-> IF i = fileId THEN changes @@ ups[i] ELSE ups[i]]

\* the for loop of onDrop from the file at run.index on, up to the first
\* await: a file validateFile refuses is marked 'error' and the loop
\* continues; the first other file is marked 'processing' and uploadShapefile
\* sends the insert of its import record
RECURSIVE ProcessFiles(_, _, _)
ProcessFiles(fs, ups, run) ==
    IF run.index > Len(run.acceptedFiles)
    THEN [files |-> fs, uploads |-> ups, run |-> [run EXCEPT !.pc = "done"]]
    ELSE LET file == run.acceptedFiles[run.index]
             fileId == run.ids[run.index]
             fileValidation == validateFile(file)
         IN  IF ~fileValidation.isValid
             THEN ProcessFiles(
                     SetFile(fs, fileId, [status |-> "error",
                                          error |-> fileValidation.errors]),
                     Note(ups, fileId, [validation |-> fileValidation,
                                        outcome |-> "refused"]),
                     [run EXCEPT !.index = @ + 1])
             ELSE [files   |-> SetFile(fs, fileId, [progress |-> 50,
                                                    status |-> "processing"]),
                   uploads |-> Note(ups, fileId, [validation |-> fileValidation]),
                   run     |-> [run EXCEPT !.pc = "insert", !.importId = 0,
                                           !.plotsData = << >>, !.error = NoError]]

\* onDrop without the catch around the file in hand: the error ends the loop
\* and the file is left as it is
FileFailedNoCatch(fs, ups, run, message) ==
    [files |-> fs,
     uploads |-> Note(ups, run.ids[run.index], [outcome |-> "threw",
                                                message |-> message]),
     run |-> [run EXCEPT !.pc = "done"]]

\* the catch of onDrop for the file in hand, and on with the loop
FileFailed(fs, ups, run, message) ==
    LET fileId == run.ids[run.index]
    IN  ProcessFiles(SetFile(fs, fileId, [status |-> "error", error |-> <<message>>]),
                     Note(ups, fileId, [outcome |-> "threw", message |-> message]),
                     [run EXCEPT !.index = @ + 1])

Init ==
    /\ geometry = NullGeometry
    /\ validation = NotCalled
    /\ plotValidation = NotCalled
    /\ sqlValidation = NotCalled
    /\ shapefileData = [features |-> << >>]
    /\ converted = NotCalled
    /\ PipelineIdle
    /\ BulkIdle
    /\ OrdersIdle
    /\ DeleteIdle

\* the user drops or selects files: useDropzone keeps the refused ones in
\* fileRejections and calls onDrop(acceptedFiles) with the others
Drop ==
    /\ Len(runs) < MaxDrops
    /\ \E user \in Users \cup {NoUser},
          dropped \in SeqsUpTo(Files, MaxFiles - Len(files)) :
          LET acceptedFiles == SelectSeq(dropped, DropzoneAccepts)
              refused == SelectSeq(dropped, LAMBDA file : ~DropzoneAccepts(file))
          IN  /\ fileRejections' = [i \in DOMAIN refused |->
                                      [file |-> refused[i],
                                       errors |-> DropzoneErrors(refused[i])]]
              /\ IF user = NoUser
                 THEN UNCHANGED <<files, runs, uploads>>
                 ELSE LET ids == [i \in DOMAIN acceptedFiles |-> Len(files) + i]
                          newFiles == [i \in DOMAIN acceptedFiles |->
                                          [id |-> ids[i], name |-> acceptedFiles[i].name,
                                           size |-> acceptedFiles[i].size,
                                           status |-> "uploading", progress |-> 0,
                                           error |-> << >>, importId |-> 0,
                                           plotsCount |-> -1]]
                          newNotes == [i \in DOMAIN acceptedFiles |->
                                          [file |-> acceptedFiles[i],
                                           validation |-> NotCalled, importId |-> 0,
                                           archive |-> NotOpened, generated |-> 0,
                                           bulkCalls |-> 0, outcome |-> "pending",
                                           message |-> "", result |-> NoResult]]
                          next == ProcessFiles(files \o newFiles, uploads \o newNotes,
                                               [user |-> user,
                                                acceptedFiles |-> acceptedFiles,
                                                ids |-> ids, index |-> 1, pc |-> "loop",
                                                importId |-> 0, plotsData |-> << >>,
                                                error |-> NoError])
                      IN  /\ files' = next.files
                          /\ uploads' = next.uploads
                          /\ runs' = Append(runs, next.run)
    /\ UNCHANGED <<imports, plots, pureVars>>

\* the store answers the insert of the import record; on success
\* uploadShapefile goes on to parseShapefileFromZip and JSZip.loadAsync
InsertImportOf(r) ==
    /\ runs[r].pc = "insert"
    /\ LET run == runs[r]
           file == run.acceptedFiles[run.index]
           fileId == run.ids[run.index]
       IN  \/ /\ imports' = Append(imports,
                     [original_filename |-> file.name, uploaded_by |-> run.user,
                      file_size |-> file.size, status |-> "processing",
                      plots_count |-> 0, error_message |-> SqlNull])
              /\ runs' = [runs EXCEPT ![r].pc = "loadZip",
                                      ![r].importId = Len(imports) + 1]
              /\ uploads' = Note(uploads, fileId, [importId |-> Len(imports) + 1])
              /\ UNCHANGED files
           \/ \E importError \in StoreErrors :
                 LET next == FileFailed(files, uploads, run,
                                        handleSupabaseError(importError))
                 IN  /\ files' = next.files
                     /\ uploads' = next.uploads
                     /\ runs' = [runs EXCEPT ![r] = next.run]
                     /\ UNCHANGED imports
    /\ UNCHANGED <<plots, fileRejections, pureVars>>

InsertImport == \E r \in DOMAIN runs : InsertImportOf(r)

\* JSZip.loadAsync answers; parseShapefileFromZip, convertToPlotData and the
\* sending of the rpc follow without an await in between
LoadZipOf(r) ==
    /\ runs[r].pc = "loadZip"
    /\ \E archive \in Archives, draw \in MockDraws :
          LET run == runs[r]
              fileId == run.ids[run.index]
              parsed == parseShapefileFromZip(archive, draw)
          IN  IF ~parsed.ok
              THEN /\ runs' = [runs EXCEPT ![r].pc = "markFailed",
                                           ![r].error = parsed.error]
                   /\ uploads' = Note(uploads, fileId, [archive |-> archive])
              ELSE LET codes == [i \in DOMAIN parsed.data.features |-> "PLOT_1_a"]
                       plotsData == convertToPlotData(parsed.data, codes).plotsData
                   IN  /\ runs' = [runs EXCEPT ![r].pc = "bulkImport",
                                               ![r].plotsData = plotsData]
                       /\ uploads' = Note(uploads, fileId,
                                          [archive |-> archive,
                                           generated |-> parsed.generated,
                                           bulkCalls |-> uploads[fileId].bulkCalls + 1])
    /\ UNCHANGED <<files, imports, plots, fileRejections, pureVars>>

LoadZip == \E r \in DOMAIN runs : LoadZipOf(r)

\* RpcFailed for a store that keeps the rows inserted before the error
RpcFailedKeepsRows(rows, plots_data, import_id) ==
    BulkImportLoop([rows |-> rows, inserted_count |-> 0, error_count |-> 0,
                    errors |-> << >>],
                   plots_data, import_id, 1).rows

\* the table plots after an rpc the store answered with an error: the
\* function runs in one transaction, which the error rolls back
RpcFailed(rows, plots_data, import_id) == rows

\* the rpc fails and uploadShapefile goes to its catch, or the store runs
\* bulk_import_plots and uploadShapefile returns
BulkImportOf(r) ==
    /\ runs[r].pc = "bulkImport"
    /\ LET run == runs[r]
           fileId == run.ids[run.index]
       IN  \/ \E rpcError \in StoreErrors :
                 /\ runs' = [runs EXCEPT ![r].pc = "markFailed", ![r].error = rpcError]
                 /\ plots' = RpcFailed(plots, run.plotsData, run.importId)
                 /\ UNCHANGED <<files, imports, uploads>>
           \/ LET done == bulk_import_plots(plots, imports, run.plotsData, run.importId)
                  message == SuccessMessage(done.result.imported_count)
                  next == ProcessFiles(
                             SetFile(files, fileId,
                                     [status |-> "completed", progress |-> 100,
                                      importId |-> run.importId,
                                      plotsCount |-> ParsePlotsCount(message)]),
                             Note(uploads, fileId,
                                  [outcome |-> "returned",
                                   result |-> [importId |-> run.importId,
                                               message |-> message]]),
                             [run EXCEPT !.index = @ + 1])
              IN  /\ plots' = done.plots
                  /\ imports' = done.imports
                  /\ files' = next.files
                  /\ uploads' = next.uploads
                  /\ runs' = [runs EXCEPT ![r] = next.run]
    /\ UNCHANGED <<fileRejections, pureVars>>

BulkImport == \E r \in DOMAIN runs : BulkImportOf(r)

\* the catch of uploadShapefile: the update of the import record (its result
\* is not looked at), then the error goes up to onDrop
MarkFailedOf(r) ==
    /\ runs[r].pc = "markFailed"
    /\ LET run == runs[r]
           processingError == run.error
           next == FileFailed(files, uploads, run, handleSupabaseError(processingError))
       IN  /\ \E applied \in BOOLEAN :
                 imports' =
                    IF applied
                    THEN [imports EXCEPT
                            ![run.importId].status = "failed",
                            ![run.importId].error_message =
                               SqlText(IF processingError.isError
                                       THEN processingError.message
                                       ELSE "Processing failed")]
                    ELSE imports
           /\ files' = next.files
           /\ uploads' = next.uploads
           /\ runs' = [runs EXCEPT ![r] = next.run]
    /\ UNCHANGED <<plots, fileRejections, pureVars>>

MarkFailed == \E r \in DOMAIN runs : MarkFailedOf(r)

Next ==
    \/ Drop
    \/ InsertImport
    \/ LoadZip
    \/ BulkImport
    \/ MarkFailed

Spec == Init /\ [][Next]_vars

\* what onDrop r does when the call it awaits returns or throws
RunStep(r) ==
    /\ r \in DOMAIN runs
    /\ InsertImportOf(r) \/ LoadZipOf(r) \/ BulkImportOf(r) \/ MarkFailedOf(r)

\* Spec when every awaited call of every onDrop returns or throws
SpecFair == Spec /\ \A r \in 1..MaxDrops : WF_vars(RunStep(r))

(***************************************************************************)
(* SpecOrders: the orders of the plots.  create_order_transaction is a     *)
(* transaction of several statements; its SELECT takes no lock, so the     *)
(* statements of two calls interleave between the SELECT and the writes,   *)
(* which become visible together at the commit.  The other operations are  *)
(* one statement or one function call each.                                *)
(***************************************************************************)
MaxCreates == 2
MaxOrderCalls == 2

\* CREATE TYPE plot_status, CREATE TYPE order_status
PlotStatuses == {"available", "reserved", "sold", "pending"}
OrderStatuses == {"pending", "approved", "rejected", "cancelled"}

\* the rows of plots, and an id no row has
OrderPlots == {"plot1", "plot2"}
UnknownPlot == "plot0"
OrderUsers == {"user1", "user2"}

\* the ids create_order_transaction's INSERT hands out are the positions in
\* orders; an id beyond them is the id of no order
OrderIds == 1..(MaxCreates + 1)

\* RAISE EXCEPTION 'message'
Raised(message) == [isError |-> FALSE, code |-> "P0001", message |-> message]

\* .single() when the statement returned no row
NoRow == [isError |-> FALSE, code |-> "PGRST116", message |-> "no rows returned"]

\* how PL/pgSQL resolves a name that is both a variable of the function and a
\* column of the statement's table (plpgsql.variable_conflict; the schema
\* leaves the default, "error")
VariableConflict == {"error", "use_variable", "use_column"}

AmbiguousColumn ==
    [isError |-> FALSE, code |-> "42702",
     message |-> "column reference \"approved_price\" is ambiguous"]

OrderOutcome(error, os, ps) == [error |-> error, orders |-> os, plotStatus |-> ps]

\* the trigger update_plot_status_trigger, AFTER UPDATE ON orders (oldRow and
\* newRow: the row before and after the update)
update_plot_status_on_order_approval(ps, oldRow, newRow) ==
    IF newRow.status = "approved" /\ oldRow.status # "approved"
    THEN [ps EXCEPT ![newRow.plot_id] = "reserved"]
    ELSE IF newRow.status \in {"rejected", "cancelled"} /\ oldRow.status = "approved"
    THEN [ps EXCEPT ![newRow.plot_id] = "available"]
    ELSE ps

\* UPDATE orders SET status = ... WHERE id = ..., with the trigger
UpdateOrderRow(os, ps, id, status) ==
    LET newRow == [os[id] EXCEPT !.status = status]
    IN  OrderOutcome("", [os EXCEPT ![id] = newRow],
                     update_plot_status_on_order_approval(ps, os[id], newRow))

\* approve_order_transaction.  Its UPDATE orders reads approved_price, the
\* name of the function's parameter and of a column of orders: under
\* variable_conflict = error the statement raises and the transaction is
\* rolled back.
approve_order_transaction(os, ps, order_id, conflict) ==
    IF order_id \notin DOMAIN os
    THEN OrderOutcome(handleSupabaseError(Raised("Order not found")), os, ps)
    ELSE IF os[order_id].status # "pending"
    THEN OrderOutcome(handleSupabaseError(Raised("Order is not in pending status")),
                      os, ps)
    ELSE IF conflict = "error"
    THEN OrderOutcome(handleSupabaseError(AmbiguousColumn), os, ps)
    ELSE LET updated == UpdateOrderRow(os, ps, order_id, "approved")
         IN  OrderOutcome("", updated.orders,
                          [updated.plotStatus EXCEPT
                              ![os[order_id].plot_id] = "reserved"])

\* OrderService.updateOrderStatus
updateOrderStatus(os, ps, orderId, status) ==
    IF orderId \notin DOMAIN os
    THEN OrderOutcome(handleSupabaseError(NoRow), os, ps)
    ELSE UpdateOrderRow(os, ps, orderId, status)

\* OrderService.rejectOrder
rejectOrder(os, ps, orderId) == updateOrderStatus(os, ps, orderId, "rejected")

\* OrderService.cancelOrder, called by user
cancelOrder(os, ps, orderId, user) ==
    IF orderId \notin DOMAIN os
    THEN OrderOutcome(handleSupabaseError(NoRow), os, ps)
    ELSE IF os[orderId].user_id # user
    THEN OrderOutcome("Unauthorized to cancel this order", os, ps)
    ELSE IF os[orderId].status # "pending"
    THEN OrderOutcome("Only pending orders can be cancelled", os, ps)
    ELSE updateOrderStatus(os, ps, orderId, "cancelled")

nonOrderVars ==
    <<geometry, validation, plotValidation, sqlValidation,
                 shapefileData, converted,
      bulkCall, bulkResult, pipelineVars, deleteCall>>

InitOrders ==
    /\ geometry = NullGeometry
    /\ validation = NotCalled
    /\ plotValidation = NotCalled
    /\ sqlValidation = NotCalled
    /\ shapefileData = NotCalled
    /\ converted = NotCalled
    /\ PipelineIdle
    /\ BulkIdle
    /\ plotStatus \in [OrderPlots -> {"available", "sold"}]
    /\ orders = << >>
    /\ createCalls = << >>
    /\ orderCall = NoOrderCall
    /\ DeleteIdle

\* create_order_transaction up to its checks: SELECT status INTO plot_status
\* and the two RAISE EXCEPTION.  open: the calls that have read the plot's
\* status and not committed yet.
CreateOrderSelect ==
    \E plot_id \in OrderPlots \cup {UnknownPlot}, user_id \in OrderUsers :
        /\ Len(createCalls) < MaxCreates
        /\ LET open == {c \in DOMAIN createCalls : createCalls[c].pc = "write"}
               call == [plot_id |-> plot_id, user_id |-> user_id, open |-> open,
                        order_id |-> 0]
               error == IF plot_id \notin DOMAIN plotStatus
                        THEN handleSupabaseError(Raised("Plot not found"))
                        ELSE IF plotStatus[plot_id] # "available"
                        THEN handleSupabaseError(
                                 Raised("Plot is not available for ordering"))
                        ELSE ""
           IN  createCalls' = Append(createCalls,
                   call @@ [pc |-> IF error = "" THEN "write" ELSE "done",
                            error |-> error])
        /\ UNCHANGED <<plotStatus, orders, orderCall, nonOrderVars>>

\* the rest of create_order_transaction: INSERT INTO orders, UPDATE plots and
\* the commit
CreateOrderWriteOf(c) ==
    /\ createCalls[c].pc = "write"
    /\ orders' = Append(orders, [plot_id |-> createCalls[c].plot_id,
                                 user_id |-> createCalls[c].user_id,
                                 status |-> "pending"])
    /\ plotStatus' = [plotStatus EXCEPT ![createCalls[c].plot_id] = "pending"]
    /\ createCalls' = [createCalls EXCEPT ![c].pc = "done",
                                          ![c].order_id = Len(orders) + 1]
    /\ UNCHANGED <<orderCall, nonOrderVars>>

CreateOrderWrite == \E c \in DOMAIN createCalls : CreateOrderWriteOf(c)

\* what a call leaves in orderCall
OrderCalled(op, order_id, outcome) ==
    [seq |-> orderCall.seq + 1, op |-> op, order_id |-> order_id,
     error |-> outcome.error]

\* OrderService.approveOrder
ApproveOrder ==
    \E order_id \in OrderIds, conflict \in VariableConflict :
        LET outcome == approve_order_transaction(orders, plotStatus, order_id,
                                                 conflict)
        IN  /\ orderCall.seq < MaxOrderCalls
            /\ orders' = outcome.orders
            /\ plotStatus' = outcome.plotStatus
            /\ orderCall' = OrderCalled("approveOrder", order_id, outcome)
            /\ UNCHANGED <<createCalls, nonOrderVars>>

RejectOrder ==
    \E orderId \in OrderIds :
        LET outcome == rejectOrder(orders, plotStatus, orderId)
        IN  /\ orderCall.seq < MaxOrderCalls
            /\ orders' = outcome.orders
            /\ plotStatus' = outcome.plotStatus
            /\ orderCall' = OrderCalled("rejectOrder", orderId, outcome)
            /\ UNCHANGED <<createCalls, nonOrderVars>>

CancelOrder ==
    \E orderId \in OrderIds, user \in OrderUsers :
        LET outcome == cancelOrder(orders, plotStatus, orderId, user)
        IN  /\ orderCall.seq < MaxOrderCalls
            /\ orders' = outcome.orders
            /\ plotStatus' = outcome.plotStatus
            /\ orderCall' = OrderCalled("cancelOrder", orderId, outcome)
            /\ UNCHANGED <<createCalls, nonOrderVars>>

NextOrders ==
    \/ CreateOrderSelect
    \/ CreateOrderWrite
    \/ ApproveOrder
    \/ RejectOrder
    \/ CancelOrder

SpecOrders == InitOrders /\ [][NextOrders]_vars

(***************************************************************************)
(* SpecDelete: ShapefileService.deleteShapefileImport on tables with the   *)
(* records of two imports and their plots.  The function awaits two        *)
(* requests, the delete of the plots and the delete of the import record;  *)
(* the store can answer either with an error.                              *)
(***************************************************************************)
MaxDeletes == 2

DeleteCodes == {"LP001", "LP002", "LP003"}

DeleteRow(code, import_id) ==
    PlotRow(PlotDataOf([geometry |-> MockSquare,
                        properties |-> ("PLOT_CODE" :> Str(code))],
                       MockArea, "PLOT_1_a"), import_id)

\* the tables plots in which every plot code is in no row, or in a row of
\* import 1 or of import 2
DeleteTables ==
    { {DeleteRow(code, owner[code]) : code \in {c \in DeleteCodes : owner[c] # 0}} :
        owner \in [DeleteCodes -> 0..2] }

\* the ids deleteShapefileImport is called with: the two imports and the id
\* of no import
DeleteIds == 1..3

InitDelete ==
    /\ geometry = NullGeometry
    /\ validation = NotCalled
    /\ plotValidation = NotCalled
    /\ sqlValidation = NotCalled
    /\ shapefileData = NotCalled
    /\ converted = NotCalled
    /\ files = << >>
    /\ runs = << >>
    /\ uploads = << >>
    /\ fileRejections = << >>
    /\ imports = BulkImports
    /\ plots \in DeleteTables
    /\ BulkIdle
    /\ OrdersIdle
    /\ DeleteIdle

\* DELETE FROM shapefile_imports WHERE id = ...; plots.import_id is ON DELETE
\* SET NULL (0)
DeleteImportRow(rows, id) ==
    {IF row.import_id = id THEN [row EXCEPT !.import_id = 0] ELSE row : row \in rows}

\* deleteShapefileImport(id) up to its first await:
\* supabase.from('plots').delete().eq('import_id', id)
DeletePlots ==
    \E id \in DeleteIds :
        /\ deleteCall.pc = "done"
        /\ deleteCall.seq < MaxDeletes
        /\ LET call == [seq |-> deleteCall.seq + 1, id |-> id,
                        before |-> [imports |-> imports, plots |-> plots]]
           IN  \/ /\ plots' = {row \in plots : row.import_id # id}
                  /\ deleteCall' = call @@ [pc |-> "deleteImport", outcome |-> "none",
                                            message |-> ""]
               \/ \E plotsError \in StoreErrors :
                     /\ deleteCall' =
                           call @@ [pc |-> "done", outcome |-> "threw",
                                    message |-> handleSupabaseError(plotsError)]
                     /\ UNCHANGED plots
        /\ UNCHANGED <<geometry, validation, plotValidation, sqlValidation,
                 shapefileData, converted,
                       files, runs, imports, uploads, fileRejections,
                       bulkCall, bulkResult, orderVars>>

\* the second await: supabase.from('shapefile_imports').delete().eq('id', id)
DeleteImport ==
    /\ deleteCall.pc = "deleteImport"
    /\ \/ /\ imports' = [i \in DOMAIN imports \ {deleteCall.id} |-> imports[i]]
          /\ plots' = DeleteImportRow(plots, deleteCall.id)
          /\ deleteCall' = [deleteCall EXCEPT !.pc = "done", !.outcome = "returned"]
       \/ \E importError \in StoreErrors :
             /\ deleteCall' =
                   [deleteCall EXCEPT !.pc = "done", !.outcome = "threw",
                                      !.message = handleSupabaseError(importError)]
             /\ UNCHANGED <<imports, plots>>
    /\ UNCHANGED <<geometry, validation, plotValidation, sqlValidation,
                 shapefileData, converted,
                   files, runs, uploads, fileRejections,
                   bulkCall, bulkResult, orderVars>>

NextDelete == DeletePlots \/ DeleteImport

SpecDelete == InitDelete /\ [][NextDelete]_vars

(***************************************************************************)
(* Properties of the validator (SpecValidate).                             *)
(***************************************************************************)
Range(seq) == {seq[i] : i \in DOMAIN seq}

Validated == validation # NotCalled
Converted == converted # NotCalled

\* the validation rules of the specification, stated on the geometry alone
RuleSinglePolygon(g) == g # NullGeometry /\ g.type = "Polygon"
RuleNoSelfIntersection(g) == g.kinks = 0
RulePolygonValid(g) == g.valid
RuleAreaAtLeastMin(g) == g.area >= AreaMin
RuleAreaAtMostMax(g) == g.area <= AreaMax

\* the reasons of the rules g violates; a feature without geometry has
\* nothing the other four rules could be evaluated on
ViolatedReasons(g) ==
    IF g = NullGeometry
    THEN {ErrNotPolygon}
    ELSE {r \in {ErrNotPolygon, ErrSelfIntersection, ErrInvalidPolygon,
                 ErrAreaTooSmall, ErrAreaTooLarge} :
            \/ r = ErrNotPolygon /\ ~RuleSinglePolygon(g)
            \/ r = ErrSelfIntersection /\ ~RuleNoSelfIntersection(g)
            \/ r = ErrInvalidPolygon /\ ~RulePolygonValid(g)
            \/ r = ErrAreaTooSmall /\ ~RuleAreaAtLeastMin(g)
            \/ r = ErrAreaTooLarge /\ ~RuleAreaAtMostMax(g)}

C1Case ==
    /\ RuleSinglePolygon(geometry)
    /\ RulePolygonValid(geometry)
    /\ RuleNoSelfIntersection(geometry)
    /\ geometry.area > AreaMin
    /\ geometry.area < AreaMax

\* C1: a Polygon that is topologically valid, does not intersect itself and
\* has an area strictly between 1 and 10,000,000 m2 is accepted by
\* validateGeometry with an empty reason list, and convertToPlotData puts
\* its feature into the batch.
C1_ValidPolygonAccepted ==
    C1Case =>
       /\ Validated => validation = [isValid |-> TRUE, errors |-> << >>]
       /\ Converted =>
             /\ converted.outcomes = <<"pushed">>
             /\ Len(converted.plotsData) = 1
             /\ converted.plotsData[1].geometry = Stringify(geometry)

C1_Witness ==
    C1Case /\ Validated /\ Converted /\ geometry.area = AreaMax - 1

\* C2: the reason list holds one reason for every rule the feature violates
\* (geometry type, self-intersection, polygon validity, area >= 1,
\* area <= 10,000,000), also for a geometry that is missing or not a Polygon.
C2_EveryViolatedRuleReported ==
    Validated => ViolatedReasons(geometry) \subseteq Range(validation.errors)

\* C3: a geometry whose area is below 1 m2 is rejected with the
\* area-too-small reason, whatever its type, validity and self-intersection.
C3_SmallAreaReported ==
    (Validated /\ geometry # NullGeometry /\ geometry.area < AreaMin) =>
       /\ ~validation.isValid
       /\ ErrAreaTooSmall \in Range(validation.errors)

\* C4: a geometry whose area is above 10,000,000 m2 is rejected with the
\* area-too-large reason.
C4_LargeAreaReported ==
    (Validated /\ geometry # NullGeometry /\ geometry.area > AreaMax) =>
       /\ ~validation.isValid
       /\ ErrAreaTooLarge \in Range(validation.errors)

\* C5: a Polygon that intersects itself is rejected with the
\* self-intersection reason, and with the invalid-polygon reason as well
\* when it is also topologically invalid.
C5_SelfIntersectionReported ==
    (Validated /\ RuleSinglePolygon(geometry) /\ geometry.kinks > 0) =>
       /\ ~validation.isValid
       /\ ErrSelfIntersection \in Range(validation.errors)
       /\ ~geometry.valid => ErrInvalidPolygon \in Range(validation.errors)

\* C6: the area bounds are inclusive: a polygon that passes the other rules
\* is accepted at exactly 1 m2 and at exactly 10,000,000 m2; the
\* area-too-small reason appears only below 1, the area-too-large reason
\* only above 10,000,000, and never both.
C6_AreaBoundsInclusive ==
    Validated =>
       /\ ErrAreaTooSmall \in Range(validation.errors) =>
             (geometry # NullGeometry /\ geometry.area < AreaMin)
       /\ ErrAreaTooLarge \in Range(validation.errors) =>
             (geometry # NullGeometry /\ geometry.area > AreaMax)
       /\ ~({ErrAreaTooSmall, ErrAreaTooLarge} \subseteq Range(validation.errors))
       /\ ( /\ RuleSinglePolygon(geometry)
            /\ RulePolygonValid(geometry)
            /\ RuleNoSelfIntersection(geometry)
            /\ geometry.area \in {AreaMin, AreaMax} ) =>
             validation = [isValid |-> TRUE, errors |-> << >>]

C6_Witness ==
    /\ Validated
    /\ RuleSinglePolygon(geometry)
    /\ RulePolygonValid(geometry)
    /\ RuleNoSelfIntersection(geometry)
    /\ geometry.area = AreaMax
    /\ validation.isValid

(***************************************************************************)
(* Properties of convertToPlotData (SpecConvert).                          *)
(***************************************************************************)
\* a feature the specification's rules accept
AcceptableFeature(f) ==
    /\ RuleSinglePolygon(f.geometry)
    /\ f.geometry.ringsOk
    /\ RulePolygonValid(f.geometry)
    /\ RuleNoSelfIntersection(f.geometry)
    /\ RuleAreaAtLeastMin(f.geometry)
    /\ RuleAreaAtMostMax(f.geometry)

\* C7: the plots handed to bulk import are exactly the accepted features, in
\* their original order: none dropped, duplicated or reordered, and no
\* rejected feature among them.
C7_BatchIsAcceptedSubsequence ==
    Converted =>
       LET accepted == SelectSeq(shapefileData.features, AcceptableFeature)
       IN  /\ Len(converted.plotsData) = Len(accepted)
           /\ \A i \in 1..Len(accepted) :
                 /\ converted.plotsData[i].geometry = Stringify(accepted[i].geometry)
                 /\ converted.plotsData[i].attributes = PropsOf(accepted[i])

C7_Witness ==
    /\ Converted
    /\ Len(shapefileData.features) = 3
    /\ ~AcceptableFeature(shapefileData.features[2])
    /\ Len(converted.plotsData) = 2
    /\ converted.plotsData[1].attributes # converted.plotsData[2].attributes

\* what becomes of a feature that convertToPlotData is given alone
AloneOutcome(f) ==
    convertToPlotData([features |-> <<f>>], <<"PLOT_1_a">>).outcomes[1]

\* C8: a feature that fails validation, or whose conversion throws, does not
\* stop the loop and does not change what becomes of another feature: every
\* feature of a sequence is accepted exactly when it is accepted alone.
C8_FeaturesIndependent ==
    Converted =>
       /\ Len(converted.outcomes) = Len(shapefileData.features)
       /\ \A i \in 1..Len(shapefileData.features) :
             (converted.outcomes[i] = "pushed")
                <=> (AloneOutcome(shapefileData.features[i]) = "pushed")

C8_Witness ==
    /\ Converted
    /\ Len(shapefileData.features) = 3
    /\ converted.outcomes = <<"threw", "skipped", "pushed">>

(***************************************************************************)
(* Properties of the upload pipeline (Spec).                               *)
(***************************************************************************)
\* the package was opened and no entry of it ends in suffix (in any case of
\* the letters, as the code compares)
NoEntryEndingIn(archive, suffix) ==
    \A name \in archive.entries : ~EndsWith(ToLowerCase(name), suffix)

MissingComponent(archive) ==
    /\ archive # NotOpened
    /\ archive.zip
    /\ NoEntryEndingIn(archive, DotShp) \/ NoEntryEndingIn(archive, DotDbf)

\* the run that has the file in hand
InHand(fileId, r) ==
    /\ runs[r].pc # "done"
    /\ runs[r].index <= Len(runs[r].ids)
    /\ runs[r].ids[runs[r].index] = fileId

\* C9: when the uploaded package has no entry ending in .shp or none ending
\* in .dbf, the upload fails with the missing-component error before any
\* feature is generated: no feature is produced, bulk import is not called
\* for the upload, and no plot of it reaches the store.
C9_MissingComponentFailsBeforeDecoding ==
    \A id \in DOMAIN uploads :
       MissingComponent(uploads[id].archive) =>
          /\ uploads[id].generated = 0
          /\ uploads[id].bulkCalls = 0
          /\ \A row \in plots : row.import_id # uploads[id].importId
          /\ \/ /\ uploads[id].outcome = "threw"
                /\ uploads[id].message = MsgParseMissingFiles
                /\ files[id].status = "error"
                /\ files[id].error = <<MsgParseMissingFiles>>
             \/ /\ uploads[id].outcome = "pending"
                /\ \E r \in DOMAIN runs :
                      /\ InHand(id, r)
                      /\ runs[r].pc = "markFailed"
                      /\ runs[r].error = ErrorOf(MsgParseMissingFiles)

C9_Witness ==
    \E id \in DOMAIN uploads :
       /\ uploads[id].archive = [zip |-> TRUE, entries |-> {EntryDbf, EntryXml}]
       /\ uploads[id].outcome = "threw"
       /\ files[id].status = "error"

\* C10: a file that is not a ZIP package (a bare .shp, .shx, .dbf, .prj or
\* .cpg file, or any file whose content is not a package) is refused by the
\* validation before any parsing: no import record is created for it and no
\* archive is opened.
C10_NonZipRefusedBeforeParsing ==
    \A id \in DOMAIN uploads :
       /\ ~EndsWith(ToLowerCase(uploads[id].file.name), DotZip) =>
             /\ uploads[id].validation # NotCalled => ~uploads[id].validation.isValid
             /\ uploads[id].importId = 0
             /\ uploads[id].archive = NotOpened
       /\ uploads[id].archive = NotZip => uploads[id].importId = 0

\* C11: a file larger than 50 MB fails with a size error before an import
\* record is created and before its archive is opened: useDropzone refuses it
\* with file-too-large, and a file that reached onDrop all the same would be
\* refused by validateFile with the size error; a file of exactly 50 MB gets
\* no size error from either.
C11_OversizeRefusedBeforeImport ==
    /\ \A i \in DOMAIN fileRejections :
          fileRejections[i].file.size > MaxFileSize
             <=> "file-too-large" \in Range(fileRejections[i].errors)
    /\ \A id \in DOMAIN uploads :
          IF uploads[id].file.size > MaxFileSize
          THEN /\ uploads[id].importId = 0
               /\ uploads[id].archive = NotOpened
               /\ uploads[id].validation # NotCalled =>
                     ErrFileSize \in Range(uploads[id].validation.errors)
          ELSE uploads[id].validation # NotCalled =>
                  ErrFileSize \notin Range(uploads[id].validation.errors)

C11_Witness ==
    /\ \E i \in DOMAIN fileRejections :
          /\ fileRejections[i].file.size = MaxFileSize + 1
          /\ fileRejections[i].errors = <<"file-too-large">>
    /\ \E id \in DOMAIN uploads :
          /\ uploads[id].file.size = MaxFileSize
          /\ uploads[id].importId # 0
          /\ uploads[id].outcome = "returned"

\* C12: the import record exists, with status 'processing', before the
\* parsing of the archive starts, and once uploadShapefile has returned or
\* thrown after creating the record, the record's status is 'completed' or
\* 'failed'.
C12_ImportRecordFinalized ==
    /\ \A r \in DOMAIN runs :
          runs[r].pc = "loadZip" =>
             /\ runs[r].importId \in DOMAIN imports
             /\ imports[runs[r].importId].status = "processing"
    /\ \A id \in DOMAIN uploads :
          /\ uploads[id].archive # NotOpened => uploads[id].importId \in DOMAIN imports
          /\ (uploads[id].importId # 0 /\ uploads[id].outcome \in {"returned", "threw"})
                => imports[uploads[id].importId].status \in {"completed", "failed"}

(***************************************************************************)
(* Properties of bulk_import_plots (SpecBulk).                             *)
(***************************************************************************)
\* the table plots as the call found it: the rows of other imports
RowsBefore == {row \in plots : row.import_id # bulkCall.import_id}

\* the records of the batch the table cannot take: the plot code is in the
\* table already or an earlier record of the batch has it
FailedRecords ==
    {i \in DOMAIN bulkCall.plots_data :
        \/ \E row \in RowsBefore : row.plot_code = bulkCall.plots_data[i].plot_code
        \/ \E j \in 1..(i - 1) :
              bulkCall.plots_data[j].plot_code = bulkCall.plots_data[i].plot_code}

\* the indices of S in increasing order
RECURSIVE Ascending(_)
Ascending(S) ==
    IF S = {} THEN << >>
    ELSE LET least == CHOOSE i \in S : \A j \in S : i <= j
         IN  <<least>> \o Ascending(S \ {least})

\* the error texts of the failed records, in the order of the batch
FailedTexts ==
    [k \in 1..Cardinality(FailedRecords) |->
        [plot |-> bulkCall.plots_data[Ascending(FailedRecords)[k]].plot_code,
         sqlerrm |-> SqlUnique]]

RowsRefused(id) ==
    /\ uploads[id].importId # 0
    /\ imports[uploads[id].importId].error_message # SqlNull
    /\ imports[uploads[id].importId].error_message.k = "joined"

\* C14: when the store rejects the batch or a row of it, the upload is
\* reported as failed: uploadShapefile returns no success result and the
\* component does not mark the file 'completed'; bulk import is called at
\* most once per upload.
C14_StoreRejectionReported ==
    \A id \in DOMAIN uploads :
       /\ uploads[id].bulkCalls <= 1
       /\ RowsRefused(id) =>
             /\ uploads[id].outcome # "returned"
             /\ files[id].status # "completed"
       /\ files[id].status = "completed" =>
             imports[uploads[id].importId].status = "completed"

SkippedCountOf(result) ==
    IF "skippedCount" \in DOMAIN result THEN result.skippedCount ELSE Undefined

\* C17: the result of an upload that did not end in a fatal error carries a
\* complete summary: with the number of imported plots it tells the number
\* of skipped features (and the reasons), and imported + skipped is the
\* number of features decoded, so that no feature is dropped uncounted.
C17_CompleteSummary ==
    \A id \in DOMAIN uploads :
       uploads[id].outcome = "returned" =>
          /\ SkippedCountOf(uploads[id].result) # Undefined
          /\ ParsePlotsCount(uploads[id].result.message)
                + SkippedCountOf(uploads[id].result) = uploads[id].generated
          /\ files[id].plotsCount = uploads[id].generated
                \/ SkippedCountOf(uploads[id].result) > 0

(***************************************************************************)
(* Properties of the plot codes of convertToPlotData (SpecCoded,           *)
(* SpecConvert, SpecAliases).                                              *)
(***************************************************************************)
PlotCodeAliases == <<"PLOT_CODE", "plot_code", "ID">>

\* the position in PlotCodeAliases of the first alias the attributes hold,
\* 0 when they hold none
FirstAlias(props) ==
    IF \E a \in DOMAIN PlotCodeAliases : PlotCodeAliases[a] \in DOMAIN props
    THEN CHOOSE a \in DOMAIN PlotCodeAliases :
            /\ PlotCodeAliases[a] \in DOMAIN props
            /\ \A b \in 1..(a - 1) : PlotCodeAliases[b] \notin DOMAIN props
    ELSE 0

\* C18: the batch handed to bulk import is de-duplicated: no two plots of it
\* have the same plot_code.
C18_BatchDeduplicated ==
    Converted =>
       \A i, j \in DOMAIN converted.plotsData :
          i # j => converted.plotsData[i].plot_code # converted.plotsData[j].plot_code

\* C19: a feature whose attributes hold none of the aliases PLOT_CODE,
\* plot_code, ID gets a synthesized plot code that is not empty and differs
\* from the plot code of every other feature of the batch.
C19_SynthesizedCodeUnique ==
    Converted =>
       \A i \in DOMAIN converted.plotsData :
          FirstAlias(converted.plotsData[i].attributes) = 0 =>
             /\ converted.plotsData[i].plot_code \in {Str(c) : c \in SynthCodes}
             /\ converted.plotsData[i].plot_code # Str("")
             /\ \A j \in DOMAIN converted.plotsData :
                   j # i => converted.plotsData[j].plot_code
                               # converted.plotsData[i].plot_code

\* C20: the plot code is the value of the first alias the attributes hold,
\* in the order PLOT_CODE, plot_code, ID, whatever that value is: the aliases
\* after it are ignored and no code is synthesized.
C20_FirstAliasWins ==
    Converted =>
       \A i \in DOMAIN converted.plotsData :
          LET props == converted.plotsData[i].attributes
          IN  FirstAlias(props) # 0 =>
                 converted.plotsData[i].plot_code
                    = props[PlotCodeAliases[FirstAlias(props)]]

(***************************************************************************)
(* Properties of the field mapping of convertToPlotData (SpecCase,         *)
(* SpecArea, SpecPrice).                                                   *)
(***************************************************************************)
\* an attribute key without regard to the case of its letters
FoldKey(key) ==
    CASE key \in {"PLOT_CODE", "Plot_Code", "plot_code"} -> "plot_code"
      [] key \in {"OWNER", "Owner", "owner"} -> "owner"
      [] OTHER -> key

\* two attribute dictionaries that differ in the case of their keys at most
SameUpToCase(p, q) ==
    {<<FoldKey(k), p[k]>> : k \in DOMAIN p} = {<<FoldKey(k), q[k]>> : k \in DOMAIN q}

\* C21: the field mapping is case-insensitive: two features whose attribute
\* keys differ only in letter case get the same plot_code, land_use,
\* owner_name, price_usd and notes.
C21_MappingCaseInsensitive ==
    Converted =>
       \A i, j \in DOMAIN converted.plotsData :
          SameUpToCase(converted.plotsData[i].attributes,
                       converted.plotsData[j].attributes) =>
             /\ converted.plotsData[i].plot_code = converted.plotsData[j].plot_code
             /\ converted.plotsData[i].land_use = converted.plotsData[j].land_use
             /\ converted.plotsData[i].owner_name = converted.plotsData[j].owner_name
             /\ converted.plotsData[i].price_usd = converted.plotsData[j].price_usd
             /\ converted.plotsData[i].notes = converted.plotsData[j].notes

\* the position in plotsData of the feature at position i, which was pushed
BatchIndex(i) ==
    Cardinality({h \in 1..i : converted.outcomes[h] = "pushed"})

\* C22: the area of a plot depends on its geometry alone: two features with
\* the same geometry and different attributes get the same decision and the
\* same area_sqm, and the area_sqm of an accepted plot is the area of its
\* geometry, the value the validator held against the two thresholds.
C22_AreaFromGeometryOnly ==
    Converted =>
       /\ \A i, j \in DOMAIN shapefileData.features :
             shapefileData.features[i].geometry = shapefileData.features[j].geometry
                => /\ converted.outcomes[i] = converted.outcomes[j]
                   /\ converted.outcomes[i] = "pushed" =>
                         converted.plotsData[BatchIndex(i)].area_sqm
                            = converted.plotsData[BatchIndex(j)].area_sqm
       /\ \A i \in DOMAIN shapefileData.features :
             converted.outcomes[i] = "pushed" =>
                LET plot == converted.plotsData[BatchIndex(i)]
                IN  /\ plot.area_sqm = shapefileData.features[i].geometry.area
                    /\ plot.geometry = Stringify(shapefileData.features[i].geometry)
                    /\ plot.area_sqm >= AreaMin
                    /\ plot.area_sqm <= AreaMax

C22_Witness ==
    /\ Converted
    /\ Len(shapefileData.features) = 2
    /\ shapefileData.features[1].geometry = shapefileData.features[2].geometry
    /\ shapefileData.features[1].geometry.area = AreaMax
    /\ "AREA_SQM" \notin DOMAIN shapefileData.features[1].properties
    /\ Get(shapefileData.features[2].properties, "AREA_SQM") = Num(500)
    /\ converted.outcomes = <<"pushed", "pushed">>

\* C23: every plot of the batch has a price_usd that is absent or a finite
\* number that is not negative: a source price that is negative or not a
\* number is treated as absent, and the feature is not rejected for it.
C23_PriceAbsentOrNonNegative ==
    Converted =>
       /\ \A i \in DOMAIN converted.plotsData :
             \/ converted.plotsData[i].price_usd = Undefined
             \/ /\ converted.plotsData[i].price_usd.k = "number"
                /\ converted.plotsData[i].price_usd.n >= 0
       /\ \A i \in DOMAIN shapefileData.features :
             AcceptableFeature(shapefileData.features[i]) =>
                converted.outcomes[i] = "pushed"

(***************************************************************************)
(* Properties of the orders (SpecOrders).                                  *)
(***************************************************************************)
Succeeded(c) == createCalls[c].pc = "done" /\ createCalls[c].error = ""

PendingOrdersOf(p) ==
    {o \in DOMAIN orders : orders[o].plot_id = p /\ orders[o].status = "pending"}

\* C24: of two calls of create_order_transaction for the same plot of which
\* the second reads the plot's status before the first has committed, at
\* most one succeeds, and a call that is over and did not succeed raised
\* 'Plot is not available for ordering'; no plot has two pending orders.
C24_ConcurrentCreatesOneOrder ==
    /\ \A c \in DOMAIN createCalls : \A d \in createCalls[c].open :
          createCalls[c].plot_id = createCalls[d].plot_id =>
              /\ ~(Succeeded(c) /\ Succeeded(d))
              /\ (createCalls[c].pc = "done" /\ createCalls[d].pc = "done") =>
                     \E e \in {c, d} :
                         createCalls[e].error = "Plot is not available for ordering"
    /\ \A p \in DOMAIN plotStatus : Cardinality(PendingOrdersOf(p)) <= 1

\* C25: a plot whose status is 'pending' has an order in status 'pending'.
C25_PendingPlotHasPendingOrder ==
    \A p \in DOMAIN plotStatus :
        plotStatus[p] = "pending" => PendingOrdersOf(p) # {}

\* C30: a call of approve_order_transaction for an order that does not exist
\* or is not pending raises and changes no order and no plot; a call for a
\* pending order makes that order 'approved' and its plot 'reserved' and
\* changes no other order and no other plot.
C30_ApproveFrame ==
    [][(orderCall'.seq # orderCall.seq /\ orderCall'.op = "approveOrder") =>
          LET id == orderCall'.order_id
          IN  IF id \notin DOMAIN orders \/ orders[id].status # "pending"
              THEN /\ orderCall'.error # ""
                   /\ orders' = orders
                   /\ plotStatus' = plotStatus
              ELSE /\ orderCall'.error = ""
                   /\ orders' = [orders EXCEPT ![id].status = "approved"]
                   /\ plotStatus' =
                          [plotStatus EXCEPT ![orders[id].plot_id] = "reserved"]
      ]_vars

(***************************************************************************)
(* Properties of the table plots (Spec).                                   *)
(***************************************************************************)
\* the rows of plots an import inserted
RowsOfImport(import_id) == {row \in plots : row.import_id = import_id}

\* C26: no two rows of plots have the same plot_code, and an import of which
\* the store refused a record, its plot_code being in the table already, has
\* that record counted as a row error and not inserted, and has the status
\* 'failed'.
C26_PlotCodesUnique ==
    /\ \A r1 \in plots : \A r2 \in plots : r1.plot_code = r2.plot_code => r1 = r2
    /\ \A id \in DOMAIN uploads :
          uploads[id].outcome = "returned" =>
             LET import == imports[uploads[id].importId]
                 inserted == Cardinality(RowsOfImport(uploads[id].importId))
                 refused == uploads[id].generated - inserted
             IN  /\ import.plots_count = inserted
                 /\ import.status =
                       IF refused = 0 THEN "completed" ELSE "failed"
                 /\ refused > 0 =>
                       /\ import.error_message.k = "joined"
                       /\ Len(import.error_message.parts) = refused
                       /\ \A k \in DOMAIN import.error_message.parts :
                             /\ import.error_message.parts[k].sqlerrm = SqlUnique
                             /\ \E row \in plots :
                                   /\ row.plot_code =
                                         import.error_message.parts[k].plot
                                   /\ row.import_id # uploads[id].importId

C26_Witness ==
    \E id1 \in DOMAIN uploads : \E id2 \in DOMAIN uploads :
        /\ uploads[id1].outcome = "returned"
        /\ uploads[id2].outcome = "returned"
        /\ imports[uploads[id1].importId].status = "completed"
        /\ RowsOfImport(uploads[id1].importId) # {}
        /\ imports[uploads[id2].importId].status = "failed"
        /\ RowsOfImport(uploads[id2].importId) = {}

(***************************************************************************)
(* Properties of deleteShapefileImport (SpecDelete).                       *)
(***************************************************************************)
\* C27: when deleteShapefileImport has returned, the import record and every
\* plot of the import are gone; when it has thrown, the import records and
\* the plots are as the call found them.
C27_DeleteAllOrNothing ==
    (deleteCall.seq > 0 /\ deleteCall.pc = "done") =>
        IF deleteCall.outcome = "returned"
        THEN /\ deleteCall.id \notin DOMAIN imports
             /\ \A row \in plots : row.import_id # deleteCall.id
        ELSE /\ imports = deleteCall.before.imports
             /\ plots = deleteCall.before.plots

(***************************************************************************)
(* Properties of the three validators (SpecAgree).                         *)
(***************************************************************************)
\* C28: for every geometry validateGeometry, validatePlotGeometry and
\* validate_plot_geometry take the same decision: all accept or none does.
C28_ValidatorsAgree ==
    (/\ validation # NotCalled
     /\ plotValidation # NotCalled
     /\ sqlValidation # NotCalled) =>
        /\ validation.isValid = plotValidation.isValid
        /\ validation.isValid = (sqlValidation.result = "true")

(***************************************************************************)
(* Properties of the file statuses of the upload component (SpecFair).     *)
(***************************************************************************)
FinalStatuses == {"completed", "error"}

\* a change of a file's status, with what the pipeline did for the file
StatusStep(old, new, outcome) ==
    \/ old = new
    \/ old = "uploading" /\ new = "processing"
    \/ old = "uploading" /\ new = "error" /\ outcome = "refused"
    \/ old = "processing" /\ new = "completed" /\ outcome = "returned"
    \/ old = "processing" /\ new = "error" /\ outcome = "threw"

\* the files of every drop are handled in drop order: those before the one
\* in hand are over, the one in hand is 'processing', the others wait
InDropOrder ==
    \A r \in DOMAIN runs :
        \A k \in DOMAIN runs[r].ids :
            LET status == files[runs[r].ids[k]].status
            IN  /\ k < runs[r].index => status \in FinalStatuses
                /\ k = runs[r].index => status = "processing"
                /\ k > runs[r].index => status = "uploading"
                /\ runs[r].pc = "done" => status \in FinalStatuses

StatusSteps ==
    /\ \A i \in DOMAIN files :
          /\ i \in DOMAIN files'
          /\ files'[i].id = files[i].id
          /\ StatusStep(files[i].status, files'[i].status, uploads'[i].outcome)
    /\ \A i \in DOMAIN files' \ DOMAIN files :
          StatusStep("uploading", files'[i].status, uploads'[i].outcome)

====
